---- MODULE Spec2Model ----
(***************************************************************************)
(* Model of the two RealTimeTranscriber implementations of karvis:         *)
(*   transcriber_module.py  (webrtcvad polling gate, worker thread)        *)
(*   moonshine.py           (Silero event gate, transcription in callback) *)
(* One behaviour follows one implementation, chosen in Init (impl).        *)
(***************************************************************************)
EXTENDS Integers, Sequences, FiniteSets, TLC

(* ------------------------------------------------------------------ *)
(* Bounds of the model                                                  *)
(* ------------------------------------------------------------------ *)
MaxBlocks == 4          \* input blocks the callback accepts in a run
MaxCalls == 3           \* start() and stop() calls in a run
CallCost == 1           \* blocks of the budget that each further call uses up
RestartBlocks == 3      \* input blocks accepted after a restart (RestartSpec)
MaxSpeechFrames == 4    \* a maximum speech duration, in VAD frames
MaxTimeoutMs == 45      \* largest vad_silence_timeout_ms explored (TimeoutSpec)
SessionBlocks == 5      \* input blocks accepted in one session (SessionSpec)

(* ------------------------------------------------------------------ *)
(* transcriber_module.py: constants and configuration                   *)
(* ------------------------------------------------------------------ *)
SAMPLE_RATE == 16000
STATE_WAITING_FOR_SPEECH == 1
STATE_RECORDING_SPEECH == 2

\* constructor arguments; the configuration checked is 20 ms VAD frames,
\* a 40 ms silence timeout and 480-sample input blocks
vad_frame_ms == 20
vad_silence_timeout_ms == 40
input_block_size == 480
\* energy_threshold = 0.005, in thousandths of full scale
energy_threshold == 5

\* int(SAMPLE_RATE * (vad_frame_ms / 1000.0))
vad_frame_samples == (SAMPLE_RATE * vad_frame_ms) \div 1000
\* int(vad_silence_timeout_ms / vad_frame_ms)
max_silence_frames == vad_silence_timeout_ms \div vad_frame_ms

RECURSIVE GCD(_, _)
GCD(a, b) == IF b = 0 THEN a ELSE GCD(b, a % b)

\* Samples are kept in runs of Unit equal samples: the largest run length
\* that divides both the block size and the VAD frame size.
Unit == GCD(vad_frame_samples, input_block_size)
FrameUnits == vad_frame_samples \div Unit
BlockUnits == input_block_size \div Unit

\* float32 amplitudes a block may carry, in thousandths of full scale
Amps == {4, 6}

\* (indata * 32767).astype(int16): truncation toward zero
ToInt16(a) == IF a >= 0 THEN (a * 32767) \div 1000 ELSE -((-a * 32767) \div 1000)

Abs(x) == IF x < 0 THEN -x ELSE x

RECURSIVE SumAbs(_)
SumAbs(s) == IF s = <<>> THEN 0 ELSE Abs(Head(s)) + SumAbs(Tail(s))

\* np.concatenate(audio_data_list)
RECURSIVE Concat(_)
Concat(fs) == IF fs = <<>> THEN <<>> ELSE Head(fs) \o Concat(Tail(fs))

\* np.abs(audio_int16 / 32767.0).mean() < energy_threshold, cross-multiplied
BelowEnergy(frames) ==
    LET xs == Concat(frames)
    IN  1000 * SumAbs(xs) < energy_threshold * 32767 * Len(xs)

\* the None that stop() puts on the transcription queue
Sentinel == [id |-> 0, sess |-> 0, frames |-> <<>>]

Workers == 1..MaxCalls
Gens == 1..MaxCalls

(* ------------------------------------------------------------------ *)
(* moonshine.py: constants                                              *)
(* ------------------------------------------------------------------ *)
STATE_WAITING == 1
STATE_RECORDING == 2
\* LOOKBACK_CHUNKS, 5 in the source, scaled down here
LookbackChunks == 2
\* MAX_SPEECH_SECS * SAMPLE_RATE / CHUNK_SIZE, the forced-cut length in
\* chunks: 625 in the source, scaled down here
MaxSpeechChunks == 3
\* chunks the moonshine frame source delivers in a run
MSMaxChunks == 2 * MaxSpeechChunks + 2

VARIABLES
    impl,                        \* "tm" or "ms": which module the run is of
    budget,                      \* blocks and calls the run is explored for
    \* --- transcriber_module.RealTimeTranscriber fields
    keep_running,                \* _keep_running (threading.Event)
    state_lock,                  \* _state_lock: "free" or its holder
    transcription_queue,         \* _transcription_queue
    output_queue,                \* _output_queue (of both classes)
    current_state,               \* _current_state
    speech_buffer,               \* _speech_buffer: list of VAD frames
    processing_buffer,           \* _processing_buffer
    silence_frames_after_speech, \* _silence_frames_after_speech
    stream,                      \* _stream (of both classes): 0 is None
    transcriber_thread,          \* _transcriber_thread: 0 is None, else a worker
    \* --- moonshine.RealTimeTranscriber fields
    state,                       \* _state
    audio_buffer,                \* _audio_buffer, one entry per chunk
    stop_event,                  \* _stop_event (threading.Event)
    triggered,                   \* vad_iter: inside a speech segment
    \* --- threads
    active_streams,              \* streams that are started and not closed
    cb_pc,                       \* audio callback: "idle" or "loop"
    wpc, witem, wtext,           \* worker threads: position, locals
    gpc,                         \* start() generators: position
    spc,                         \* stop() call in progress: position
    \* --- history
    nblocks,                     \* blocks accepted so far
    napi,                        \* start() and stop() calls so far
    api_log,                     \* the start() and stop() calls made, in order
    session,                     \* sessions begun so far
    heard,                       \* is_speech results of this session's frames
    nenq,                        \* utterances handed over so far
    sess_enq,                    \* utterances enqueued in this session
    calls,                       \* transcription calls: <<utterance, thread>>
    wexc,                        \* worker: the utterance its call last raised on
    exited,                      \* worker: why it left its loop
    burst,                       \* chunks received since the gate's last 'start'
    cuts,                        \* utterances finalized since that 'start'
    cb_raised,                   \* an exception left a callback since that 'start'
    vad_raised,                  \* is_speech raised on the frame last classified
    accepted,                    \* samples of the blocks this session accepted
    classified,                  \* samples of the frames this session classified
    \* --- main.main_loop
    mpc,                         \* position of main_loop: "off" when not run
    stream_paused,               \* its local stream_paused
    quit,                        \* its stop_event, set by the listener thread
    reply,                       \* its local reply
    pipeline,                    \* tts_handler.pipeline: "loaded" or "None"
    played,                      \* play_text was called since the last pull
    \* --- the silence timeout for other constructor arguments
    timeout_ms,                  \* argument vad_silence_timeout_ms
    frame_ms,                    \* argument vad_frame_ms
    silent_run,                  \* non-speech frames since the last speech frame
    ended_at                     \* the count at which the utterance ended, or 0

mainvars == <<mpc, stream_paused, quit, reply, pipeline, played>>
argvars == <<timeout_ms, frame_ms, silent_run, ended_at>>
runvars == <<impl, budget, mainvars, argvars>>
segvars == <<current_state, speech_buffer, processing_buffer,
             silence_frames_after_speech>>
queues == <<transcription_queue, output_queue>>
tmonly == <<keep_running, state_lock, transcription_queue, segvars,
            transcriber_thread>>
tmvars == <<tmonly, output_queue, stream>>
msonly == <<state, audio_buffer, stop_event, triggered>>
mshist == <<burst, cuts, cb_raised>>
samples == <<accepted, classified>>
hist == <<mshist, vad_raised, samples>>
wvars == <<wpc, witem, wtext, wexc, exited>>
apivars == <<napi, api_log, session>>
enqvars == <<nenq, sess_enq>>
vars == <<runvars, tmvars, msonly, active_streams, cb_pc, wvars, gpc, spc,
          nblocks, apivars, heard, enqvars, calls, hist>>

(* ------------------------------------------------------------------ *)
(* __init__ of both classes                                             *)
(* ------------------------------------------------------------------ *)
TMInit ==
    /\ keep_running = FALSE
    /\ state_lock = "free"
    /\ transcription_queue = <<>>
    /\ output_queue = <<>>
    /\ current_state = STATE_WAITING_FOR_SPEECH
    /\ speech_buffer = <<>>
    /\ processing_buffer = <<>>
    /\ silence_frames_after_speech = 0
    /\ stream = 0
    /\ transcriber_thread = 0

MSInit ==
    /\ state = STATE_WAITING
    /\ audio_buffer = <<>>
    /\ stop_event = FALSE
    /\ triggered = FALSE

ThreadsInit ==
    /\ active_streams = {}
    /\ cb_pc = "idle"
    /\ wpc = [w \in Workers |-> "unborn"]
    /\ witem = [w \in Workers |-> Sentinel]
    /\ wtext = [w \in Workers |-> ""]
    /\ gpc = [g \in Gens |-> "unborn"]
    /\ spc = "idle"

HistoryInit ==
    /\ nblocks = 0
    /\ napi = 0
    /\ api_log = <<>>
    /\ session = 0
    /\ heard = <<>>
    /\ nenq = 0
    /\ sess_enq = 0
    /\ calls = {}
    /\ wexc = [w \in Workers |-> 0]
    /\ exited = [w \in Workers |-> "no"]
    /\ burst = <<>>
    /\ cuts = <<>>
    /\ cb_raised = FALSE
    /\ vad_raised = FALSE
    /\ accepted = <<>>
    /\ classified = <<>>

\* main_loop is not running: the transcriber is driven directly
MainOff ==
    /\ mpc = "off"
    /\ stream_paused = FALSE
    /\ quit = FALSE
    /\ reply = ""
    /\ pipeline = "loaded"
    /\ played = FALSE

\* the constructor arguments are those of the configuration above
ArgsFixed ==
    /\ timeout_ms = vad_silence_timeout_ms
    /\ frame_ms = vad_frame_ms
    /\ silent_run = 0
    /\ ended_at = 0

Init ==
    /\ impl \in {"tm", "ms"}
    /\ budget = IF impl = "tm" THEN MaxBlocks ELSE MSMaxChunks
    /\ MainOff
    /\ ArgsFixed
    /\ TMInit
    /\ MSInit
    /\ ThreadsInit
    /\ HistoryInit

\* A run is explored while it has budget left: every accepted block uses
\* one of the budget, every start() or stop() call after the first CallCost.
Spent(ncalls) == nblocks + CallCost * (IF ncalls > 1 THEN ncalls - 1 ELSE 0)

\* a further start() or stop() call fits the bounds of the run
CallFits(b) == napi < MaxCalls /\ Spent(napi + 1) <= b

(* ------------------------------------------------------------------ *)
(* transcriber_module.RealTimeTranscriber._audio_callback               *)
(* ------------------------------------------------------------------ *)
Classes == {"speech", "silence", "raise"}

\* variant: the frame counts as speech unless it was classified as silence
IsSpeechUnlessSilence(cls) == cls # "silence"

\* self._vad.is_speech(...) inside try/except: an exception counts as False
IsSpeech(cls) == cls = "speech"

\* self._silence_frames_after_speech >= self._max_silence_frames
SilenceElapsed(n) == n >= max_silence_frames

\* the utterance handed to the worker: list(self._speech_buffer)
Utterance(frames) == [id |-> nenq + 1, sess |-> session, frames |-> frames]

\* if status: return
CBStatus ==
    /\ impl = "tm"
    /\ active_streams # {}
    /\ cb_pc = "idle"
    /\ UNCHANGED vars

\* entry of the callback: the running check, the int16 conversion, taking
\* the lock and appending the block to the processing buffer
CBEnter(a) ==
    /\ impl = "tm"
    /\ active_streams # {}
    /\ cb_pc = "idle"
    /\ IF ~keep_running
       THEN UNCHANGED <<state_lock, processing_buffer, cb_pc, nblocks,
                        accepted>>
       ELSE /\ Spent(napi) < budget
            /\ nblocks' = nblocks + 1
            /\ state_lock = "free"
            /\ state_lock' = "cb"
            /\ processing_buffer' =
                   processing_buffer \o [i \in 1..BlockUnits |-> ToInt16(a)]
            /\ accepted' = accepted \o [i \in 1..BlockUnits |-> ToInt16(a)]
            /\ cb_pc' = "loop"
    /\ UNCHANGED <<runvars, keep_running, queues, current_state, speech_buffer,
                   silence_frames_after_speech, stream, transcriber_thread,
                   msonly, active_streams, wvars, gpc, spc, apivars, heard,
                   enqvars, calls, mshist, vad_raised, classified>>

\* a speech frame: lines 171-177
OnSpeechFrame(frame) ==
    /\ silence_frames_after_speech' = 0
    /\ current_state' = STATE_RECORDING_SPEECH
    /\ speech_buffer' =
           IF current_state = STATE_WAITING_FOR_SPEECH
           THEN <<frame>>
           ELSE Append(speech_buffer, frame)
    /\ cb_pc' = "loop"
    /\ UNCHANGED <<state_lock, transcription_queue, enqvars>>

\* a non-speech frame while recording: lines 179-188
OnSilenceFrame(frame) ==
    LET buf == Append(speech_buffer, frame)
        n == silence_frames_after_speech + 1
    IN  /\ silence_frames_after_speech' = n
        /\ UNCHANGED current_state
        /\ IF SilenceElapsed(n)
           THEN /\ IF buf # <<>>
                   THEN /\ transcription_queue' =
                               Append(transcription_queue, Utterance(buf))
                        /\ nenq' = nenq + 1
                        /\ sess_enq' = sess_enq + 1
                   ELSE UNCHANGED <<transcription_queue, enqvars>>
                /\ speech_buffer' = <<>>
                \* break: the callback returns and releases the lock
                /\ cb_pc' = "idle"
                /\ state_lock' = "free"
           ELSE /\ speech_buffer' = buf
                /\ cb_pc' = "loop"
                /\ UNCHANGED <<state_lock, transcription_queue, enqvars>>

\* variant: a non-speech frame while waiting starts a recording
OnIdleFrameKeeps(frame) ==
    /\ cb_pc' = "loop"
    /\ current_state' = STATE_RECORDING_SPEECH
    /\ speech_buffer' = <<frame>>
    /\ UNCHANGED <<state_lock, transcription_queue,
                   silence_frames_after_speech, enqvars>>

\* a non-speech frame while waiting: nothing is kept
OnIdleFrame(frame) ==
    /\ cb_pc' = "loop"
    /\ UNCHANGED <<state_lock, transcription_queue, current_state,
                   speech_buffer, silence_frames_after_speech, enqvars>>

\* variant: the frame is cut off and the rest of the buffer is discarded
DropFrameAndRest(buf) == <<>>

\* self._processing_buffer[self._vad_frame_samples :]
DropFrame(buf) == SubSeq(buf, FrameUnits + 1, Len(buf))

\* one iteration of the while loop over VAD frames
CBFrame(cls) ==
    /\ impl = "tm"
    /\ cb_pc = "loop"
    /\ Len(processing_buffer) >= FrameUnits
    /\ keep_running
    /\ LET frame == SubSeq(processing_buffer, 1, FrameUnits)
       IN  /\ processing_buffer' = DropFrame(processing_buffer)
           /\ classified' = classified \o frame
           /\ heard' = Append(heard, IsSpeech(cls))
           /\ vad_raised' = (cls = "raise")
           /\ IF IsSpeech(cls)
              THEN OnSpeechFrame(frame)
              ELSE IF current_state = STATE_RECORDING_SPEECH
                   THEN OnSilenceFrame(frame)
                   ELSE OnIdleFrame(frame)
    /\ UNCHANGED <<runvars, keep_running, output_queue, stream,
                   transcriber_thread, msonly, active_streams, wvars, gpc,
                   spc, nblocks, apivars, calls, mshist, accepted>>

\* the loop ends: fewer samples than a VAD frame are left, or the running
\* flag was cleared meanwhile; the lock is released
CBReturn ==
    /\ impl = "tm"
    /\ cb_pc = "loop"
    /\ Len(processing_buffer) < FrameUnits \/ ~keep_running
    /\ cb_pc' = "idle"
    /\ state_lock' = "free"
    /\ UNCHANGED <<runvars, keep_running, queues, segvars, stream,
                   transcriber_thread, msonly, active_streams, wvars, gpc,
                   spc, nblocks, apivars, heard, enqvars, calls, hist>>

(* ------------------------------------------------------------------ *)
(* transcriber_module.RealTimeTranscriber._transcription_worker         *)
(* ------------------------------------------------------------------ *)
\* what mlx_whisper.transcribe may do: return a result with a text,
\* return nothing usable, or raise
Texts == {"", " ", " hi "}
Outcomes == Texts \cup {"RAISE", "NORESULT"}

\* str.strip()
Strip(t) == IF t = " hi " THEN "hi" ELSE ""

\* the text of a result taken as the model returned it
ResultTextNoStrip(out) == IF out \in {"RAISE", "NORESULT"} THEN "" ELSE out

\* text = ""; if result: text = result.get("text", "").strip()
ResultText(out) == IF out \in {"RAISE", "NORESULT"} THEN "" ELSE Strip(out)

\* while self._keep_running.is_set():
WLoop(w) ==
    /\ wpc[w] = "loop"
    /\ IF keep_running
       THEN /\ wpc' = [wpc EXCEPT ![w] = "get"]
            /\ UNCHANGED exited
       ELSE /\ wpc' = [wpc EXCEPT ![w] = "done"]
            /\ exited' = [exited EXCEPT ![w] = "flag"]
    /\ UNCHANGED <<runvars, tmvars, msonly, active_streams, cb_pc, witem, wtext,
                   wexc, gpc, spc, nblocks, apivars, heard, enqvars, calls,
                   hist>>

\* variant: no energy check
AfterGetNoEnergyCheck(item) ==
    IF item = Sentinel THEN "done" ELSE "transcribe"

\* where the worker continues with a dequeued item: the sentinel ends it,
\* an utterance below the energy threshold skips the transcription
AfterGet(item) ==
    IF item = Sentinel THEN "done"
    ELSE IF BelowEnergy(item.frames) THEN "quiet" ELSE "transcribe"

\* self._transcription_queue.get(timeout=0.5), the sentinel test and the
\* energy check on the dequeued utterance.  On queue.Empty the loop test is
\* evaluated again: the worker leaves when the flag is clear and waits on
\* otherwise.
WGet(w) ==
    /\ wpc[w] = "get"
    /\ IF transcription_queue = <<>>
       THEN /\ ~keep_running
            /\ wpc' = [wpc EXCEPT ![w] = "done"]
            /\ exited' = [exited EXCEPT ![w] = "flag"]
            /\ UNCHANGED <<transcription_queue, witem>>
       ELSE LET item == Head(transcription_queue)
            IN  /\ transcription_queue' = Tail(transcription_queue)
                /\ witem' = [witem EXCEPT ![w] = item]
                /\ wpc' = [wpc EXCEPT ![w] = AfterGet(item)]
                /\ exited' = [exited EXCEPT ![w] =
                                 IF item = Sentinel THEN "sentinel" ELSE @]
    /\ UNCHANGED <<runvars, keep_running, state_lock, output_queue, segvars,
                   stream, transcriber_thread, msonly, active_streams, cb_pc,
                   wtext, wexc, gpc, spc, nblocks, apivars, heard, enqvars,
                   calls, hist>>

\* energy check failed: reset the state under the lock, skip transcription
WQuiet(w) ==
    /\ wpc[w] = "quiet"
    /\ state_lock = "free"
    /\ current_state' = STATE_WAITING_FOR_SPEECH
    /\ wpc' = [wpc EXCEPT ![w] = "loop"]
    /\ UNCHANGED <<runvars, keep_running, state_lock, queues, speech_buffer,
                   processing_buffer, silence_frames_after_speech, stream,
                   transcriber_thread, msonly, active_streams, cb_pc, witem,
                   wtext, wexc, exited, gpc, spc, nblocks, apivars, heard,
                   enqvars, calls, hist>>

\* variant: an exception of the transcription call ends the worker
AfterTranscribeFatal(out) == IF out = "RAISE" THEN "done" ELSE "finally"

\* where the worker continues after the transcription call: an exception
\* is caught by the inner except, so every outcome reaches the finally
AfterTranscribe(out) == "finally"

\* the call of mlx_whisper.transcribe and the computation of text
WTranscribe(w, out) ==
    /\ wpc[w] = "transcribe"
    /\ calls' = calls \cup {<<witem[w].id, "worker">>}
    /\ wexc' = [wexc EXCEPT ![w] = IF out = "RAISE" THEN witem[w].id ELSE @]
    /\ wtext' = [wtext EXCEPT ![w] = ResultText(out)]
    /\ wpc' = [wpc EXCEPT ![w] = AfterTranscribe(out)]
    /\ exited' = [exited EXCEPT ![w] =
                     IF AfterTranscribe(out) = "done" THEN "exception" ELSE @]
    /\ UNCHANGED <<runvars, tmvars, msonly, active_streams, cb_pc, witem, gpc,
                   spc, nblocks, apivars, heard, enqvars, hist>>

\* finally: reset the state under the lock
WFinally(w) ==
    /\ wpc[w] = "finally"
    /\ state_lock = "free"
    /\ current_state' = STATE_WAITING_FOR_SPEECH
    /\ wpc' = [wpc EXCEPT ![w] = IF wtext[w] # "" THEN "put" ELSE "loop"]
    /\ UNCHANGED <<runvars, keep_running, state_lock, queues, speech_buffer,
                   processing_buffer, silence_frames_after_speech, stream,
                   transcriber_thread, msonly, active_streams, cb_pc, witem,
                   wtext, wexc, exited, gpc, spc, nblocks, apivars, heard,
                   enqvars, calls, hist>>

\* the text put on the output queue, with the utterance it came from
OutText(w) == [utt |-> witem[w].id, sess |-> witem[w].sess, s |-> wtext[w]]

\* if text: self._output_queue.put(text)
WPut(w) ==
    /\ wpc[w] = "put"
    /\ output_queue' = Append(output_queue, OutText(w))
    /\ wpc' = [wpc EXCEPT ![w] = "loop"]
    /\ UNCHANGED <<runvars, tmonly, stream, msonly, active_streams, cb_pc,
                   witem, wtext, wexc, exited, gpc, spc, nblocks, apivars,
                   heard, enqvars, calls, hist>>

(* ------------------------------------------------------------------ *)
(* transcriber_module.RealTimeTranscriber.start                         *)
(* ------------------------------------------------------------------ *)
SetupPcs == {"s_clear", "s_spawn", "s_stream"}

\* no start() set-up and no stop() is in progress
ApiFree == spc = "idle" /\ \A g \in Gens : gpc[g] \notin SetupPcs

\* the generator the next start() call creates
NextGen(g) == gpc[g] = "unborn" /\ \A h \in Gens : h < g => gpc[h] # "unborn"

\* if self._keep_running.is_set(): ... return
StartGuard == keep_running

\* first pull of the generator: the guard, then lines 199-203
StartEnter(g) ==
    /\ impl = "tm"
    /\ NextGen(g)
    /\ CallFits(budget)
    /\ napi' = napi + 1
    /\ api_log' = Append(api_log, "start")
    /\ IF StartGuard
       THEN /\ gpc' = [gpc EXCEPT ![g] = "done"]
            /\ UNCHANGED <<keep_running, segvars, session, sess_enq, heard,
                           samples>>
       ELSE /\ gpc' = [gpc EXCEPT ![g] = "s_clear"]
            /\ keep_running' = TRUE
            /\ current_state' = STATE_WAITING_FOR_SPEECH
            /\ speech_buffer' = <<>>
            /\ processing_buffer' = <<>>
            /\ silence_frames_after_speech' = 0
            \* a new session begins
            /\ session' = session + 1
            /\ sess_enq' = 0
            /\ heard' = <<>>
            /\ accepted' = <<>>
            /\ classified' = <<>>
    /\ UNCHANGED <<runvars, state_lock, queues, stream, transcriber_thread,
                   msonly, active_streams, cb_pc, wvars, spc, nblocks, nenq,
                   calls, mshist, vad_raised>>

\* "Clear queues": both queues are drained
StartClear(g) ==
    /\ gpc[g] = "s_clear"
    /\ transcription_queue' = <<>>
    /\ output_queue' = <<>>
    /\ gpc' = [gpc EXCEPT ![g] = "s_spawn"]
    /\ UNCHANGED <<runvars, keep_running, state_lock, segvars, stream,
                   transcriber_thread, msonly, active_streams, cb_pc, wvars,
                   spc, nblocks, apivars, heard, enqvars, calls, hist>>

\* threading.Thread(target=self._transcription_worker).start()
StartSpawn(g) ==
    /\ gpc[g] = "s_spawn"
    /\ transcriber_thread' = session
    /\ wpc' = [wpc EXCEPT ![session] = "loop"]
    /\ gpc' = [gpc EXCEPT ![g] = "s_stream"]
    /\ UNCHANGED <<runvars, keep_running, state_lock, queues, segvars, stream,
                   msonly, active_streams, cb_pc, witem, wtext, wexc, exited,
                   spc, nblocks, apivars, heard, enqvars, calls, hist>>

\* sd.InputStream(...); self._stream.start()
StartStream(g) ==
    /\ gpc[g] = "s_stream"
    /\ stream' = g
    /\ active_streams' = active_streams \cup {g}
    /\ gpc' = [gpc EXCEPT ![g] = "poll"]
    /\ UNCHANGED <<runvars, tmonly, output_queue, msonly, cb_pc, wvars, spc,
                   nblocks, apivars, heard, enqvars, calls, hist>>

\* sd.InputStream(...) or its start() raises: the except clause calls
\* stop(), which finds the flag set and runs from its first statement, and
\* the exception is raised again to the caller
StartStreamFails(g) ==
    /\ gpc[g] = "s_stream"
    /\ keep_running' = FALSE
    /\ spc' = "t_stream"
    /\ gpc' = [gpc EXCEPT ![g] = "done"]
    /\ UNCHANGED <<runvars, state_lock, queues, segvars, stream,
                   transcriber_thread, msonly, active_streams, cb_pc, wvars,
                   nblocks, apivars, heard, enqvars, calls, hist>>

\* generator loop: leave when the flag is clear, else yield a queued text
\* to the consumer, which pulls again
GenPoll(g) ==
    /\ impl = "tm"
    /\ gpc[g] = "poll"
    /\ IF ~keep_running
       THEN /\ gpc' = [gpc EXCEPT ![g] = "done"]
            /\ UNCHANGED output_queue
       ELSE /\ output_queue # <<>>
            /\ output_queue' = Tail(output_queue)
            /\ UNCHANGED gpc
    /\ UNCHANGED <<runvars, tmonly, stream, msonly, active_streams, cb_pc,
                   wvars, spc, nblocks, apivars, heard, enqvars, calls,
                   hist>>

(* ------------------------------------------------------------------ *)
(* transcriber_module.RealTimeTranscriber.stop                          *)
(* ------------------------------------------------------------------ *)
\* variant: stop() without its guard
StopGuardNever == FALSE

\* variant: stop() returns at its guard whatever the flag is
StopGuardAlways == TRUE

\* if not self._keep_running.is_set(): return
StopGuard == ~keep_running

\* the guard, then self._keep_running.clear()
StopEnter ==
    /\ impl = "tm"
    /\ spc = "idle"
    /\ CallFits(budget)
    /\ napi' = napi + 1
    /\ api_log' = Append(api_log, "stop")
    /\ IF StopGuard
       THEN UNCHANGED <<keep_running, spc>>
       ELSE /\ keep_running' = FALSE
            /\ spc' = "t_stream"
    /\ UNCHANGED <<runvars, state_lock, queues, segvars, stream,
                   transcriber_thread, msonly, active_streams, cb_pc, wvars,
                   gpc, nblocks, session, heard, enqvars, calls, hist>>

\* self._stream.stop(); self._stream.close(); self._stream = None
\* (stopping a stream waits for a callback in progress to return)
StopStream ==
    /\ spc = "t_stream"
    /\ cb_pc = "idle"
    /\ active_streams' = active_streams \ {stream}
    /\ stream' = 0
    /\ spc' = "t_put"
    /\ UNCHANGED <<runvars, tmonly, output_queue, msonly, cb_pc, wvars, gpc,
                   nblocks, apivars, heard, enqvars, calls, hist>>

\* self._stream.stop() or self._stream.close() raises: the exception is
\* caught and self._stream = None follows; the stream may have been stopped
\* before the exception or may go on delivering blocks
StopStreamRaises(stopped) ==
    /\ spc = "t_stream"
    /\ cb_pc = "idle"
    /\ stream # 0
    /\ active_streams' = IF stopped THEN active_streams \ {stream}
                                    ELSE active_streams
    /\ stream' = 0
    /\ spc' = "t_put"
    /\ UNCHANGED <<runvars, tmonly, output_queue, msonly, cb_pc, wvars, gpc,
                   nblocks, apivars, heard, enqvars, calls, hist>>

\* self._transcription_queue.put(None)
StopPut ==
    /\ spc = "t_put"
    /\ transcription_queue' = Append(transcription_queue, Sentinel)
    /\ spc' = "t_join"
    /\ UNCHANGED <<runvars, keep_running, state_lock, output_queue, segvars,
                   stream, transcriber_thread, msonly, active_streams, cb_pc,
                   wvars, gpc, nblocks, apivars, heard, enqvars, calls,
                   hist>>

\* positions of a worker that is in, or has just left, the transcription
\* call: the only ones from which it can outlast join(timeout=2.0)
SlowPcs == {"transcribe", "finally", "put"}

\* variant: join() without a timeout returns only when the thread has ended
JoinWithoutTimeout ==
    IF transcriber_thread = 0
    THEN TRUE
    ELSE wpc[transcriber_thread] = "done"

\* join(timeout=2.0) returns: no thread, the thread has ended, or timeout
JoinReturns ==
    IF transcriber_thread = 0
    THEN TRUE
    ELSE \/ wpc[transcriber_thread] = "done"
         \/ wpc[transcriber_thread] \in SlowPcs

\* the join with its bounded timeout, then self._transcriber_thread = None
StopJoin ==
    /\ spc = "t_join"
    /\ JoinReturns
    /\ transcriber_thread' = 0
    /\ spc' = "idle"
    /\ UNCHANGED <<runvars, keep_running, state_lock, queues, segvars, stream,
                   msonly, active_streams, cb_pc, wvars, gpc, nblocks,
                   apivars, heard, enqvars, calls, hist>>

(* ------------------------------------------------------------------ *)
(* moonshine.RealTimeTranscriber._audio_callback                        *)
(* ------------------------------------------------------------------ *)
\* what self.vad_iter(data) may do: return None, {'start': ..} when it is
\* not inside a speech segment, {'end': ..} when it is, or raise
VadResults == {"none", "start", "end", "raise"}

GateAllows(res) ==
    /\ res = "start" => ~triggered
    /\ res = "end" => triggered

\* x[-n:]
LastN(x, n) == IF Len(x) <= n THEN x ELSE SubSeq(x, Len(x) - n + 1, Len(x))

\* variant: the chunk is appended and nothing is dropped
BufferedWhole(chunk) == Append(audio_buffer, chunk)

\* lines 73-76: append the chunk; while waiting keep only the lookback
Buffered(chunk) ==
    IF state = STATE_WAITING
    THEN LastN(Append(audio_buffer, chunk), LookbackChunks)
    ELSE Append(audio_buffer, chunk)

\* len(self._audio_buffer) / SAMPLE_RATE > MAX_SPEECH_SECS, in chunks
ForcedCut(buf) == Len(buf) > MaxSpeechChunks

\* the thread that runs self._transcribe for _finalize_utterance
FinalizeThread == "callback"

\* _finalize_utterance on buffer buf: transcribe, queue the text, reset;
\* an exception of the transcription leaves before the reset
Finalize(buf, out) ==
    /\ calls' = calls \cup {<<nenq + 1, FinalizeThread>>}
    /\ nenq' = nenq + 1
    /\ IF out = "RAISE"
       THEN /\ cb_raised' = TRUE
            /\ audio_buffer' = buf
            /\ UNCHANGED <<output_queue, state, cuts>>
       ELSE /\ output_queue' =
                  IF ResultText(out) # ""
                  THEN Append(output_queue,
                              [utt |-> nenq + 1, sess |-> session,
                               s |-> ResultText(out)])
                  ELSE output_queue
            /\ cuts' = Append(cuts, buf)
            /\ audio_buffer' = <<>>
            /\ state' = STATE_WAITING
            /\ UNCHANGED cb_raised

\* the callback returns without finalizing
NoFinalize(buf, st, exc) ==
    /\ audio_buffer' = buf
    /\ state' = st
    /\ cb_raised' = IF triggered' /\ ~triggered THEN exc ELSE cb_raised \/ exc
    /\ cuts' = IF triggered' /\ ~triggered THEN <<>> ELSE cuts
    /\ UNCHANGED <<output_queue, calls, nenq>>

\* one invocation of the callback on one chunk; finalizing is enabled for
\* the outcomes of the transcription call (out), otherwise out is unused
MSCallback(res, out) ==
    /\ impl = "ms"
    /\ active_streams # {}
    /\ Spent(napi) < budget
    /\ GateAllows(res)
    /\ nblocks' = nblocks + 1
    /\ triggered' = IF res = "start" THEN TRUE
                    ELSE IF res = "end" THEN FALSE ELSE triggered
    /\ LET chunk == nblocks + 1
           buf == Buffered(chunk)
           st == IF res = "start" /\ state = STATE_WAITING
                 THEN STATE_RECORDING ELSE state
       IN  /\ burst' = IF res = "start" THEN <<chunk>>
                       ELSE IF triggered THEN Append(burst, chunk) ELSE burst
           /\ IF res = "raise"
              THEN /\ out = "NORESULT"
                   /\ NoFinalize(buf, state, TRUE)
              ELSE IF res # "none"
              THEN IF res = "end" /\ st = STATE_RECORDING
                   THEN Finalize(buf, out)
                   ELSE /\ out = "NORESULT"
                        /\ NoFinalize(buf, st, FALSE)
              ELSE IF state = STATE_RECORDING /\ ForcedCut(buf)
                   THEN Finalize(buf, out)
                   ELSE /\ out = "NORESULT"
                        /\ NoFinalize(buf, st, FALSE)
    /\ UNCHANGED <<runvars, tmonly, stream, stop_event, active_streams, cb_pc,
                   wvars, gpc, spc, apivars, heard, sess_enq, vad_raised,
                   samples>>

(* ------------------------------------------------------------------ *)
(* moonshine.RealTimeTranscriber.start and stop                         *)
(* ------------------------------------------------------------------ *)
\* first pull of the generator: lines 114-125; there is no running check
MSStart(g) ==
    /\ impl = "ms"
    /\ NextGen(g)
    /\ CallFits(budget)
    /\ napi' = napi + 1
    /\ api_log' = Append(api_log, "start")
    /\ session' = session + 1
    /\ stop_event' = FALSE
    /\ stream' = g
    /\ active_streams' = active_streams \cup {g}
    /\ gpc' = [gpc EXCEPT ![g] = "poll"]
    /\ UNCHANGED <<runvars, tmonly, output_queue, state, audio_buffer,
                   triggered, cb_pc, wvars, spc, nblocks, heard, enqvars,
                   calls, hist>>

\* generator loop: leave when the stop event is set, yield a queued text
MSGenPoll(g) ==
    /\ impl = "ms"
    /\ gpc[g] = "poll"
    /\ IF stop_event
       THEN /\ gpc' = [gpc EXCEPT ![g] = "finally"]
            /\ UNCHANGED output_queue
       ELSE /\ output_queue # <<>>
            /\ output_queue' = Tail(output_queue)
            /\ gpc' = [gpc EXCEPT ![g] = "yield"]
    /\ UNCHANGED <<runvars, tmonly, stream, msonly, active_streams, cb_pc,
                   wvars, spc, nblocks, apivars, heard, enqvars, calls,
                   hist>>

\* the consumer pulls the next value from a generator suspended at yield
MSGenNext(g) ==
    /\ impl = "ms"
    /\ gpc[g] = "yield"
    /\ gpc' = [gpc EXCEPT ![g] = "poll"]
    /\ UNCHANGED <<runvars, tmvars, msonly, active_streams, cb_pc, wvars, spc,
                   nblocks, apivars, heard, enqvars, calls, hist>>

\* the consumer closes (or drops) a generator suspended at yield:
\* GeneratorExit runs the finally clause
MSGenClose(g) ==
    /\ impl = "ms"
    /\ gpc[g] = "yield"
    /\ gpc' = [gpc EXCEPT ![g] = "finally"]
    /\ UNCHANGED <<runvars, tmvars, msonly, active_streams, cb_pc, wvars, spc,
                   nblocks, apivars, heard, enqvars, calls, hist>>

\* if self._stop_event.is_set(): return
MSStopGuard == stop_event

\* the body of stop(): lines 139-149
MSStopBody ==
    IF MSStopGuard
    THEN UNCHANGED <<stop_event, stream, active_streams>>
    ELSE /\ stop_event' = TRUE
         /\ stream' = 0
         /\ active_streams' = active_streams \ {stream}

\* finally: self.stop()
MSGenFinally(g) ==
    /\ impl = "ms"
    /\ gpc[g] = "finally"
    /\ MSStopBody
    /\ gpc' = [gpc EXCEPT ![g] = "done"]
    /\ UNCHANGED <<runvars, tmonly, output_queue, state, audio_buffer,
                   triggered, cb_pc, wvars, spc, nblocks, apivars, heard,
                   enqvars, calls, hist>>

\* stop() called by the application
MSStop ==
    /\ impl = "ms"
    /\ CallFits(budget)
    /\ napi' = napi + 1
    /\ api_log' = Append(api_log, "stop")
    /\ MSStopBody
    /\ UNCHANGED <<runvars, tmonly, output_queue, state, audio_buffer,
                   triggered, cb_pc, wvars, gpc, spc, nblocks, session,
                   heard, enqvars, calls, hist>>

(* ------------------------------------------------------------------ *)
(* Next-state relation                                                  *)
(* ------------------------------------------------------------------ *)
MSNext ==
    \/ \E res \in VadResults, out \in Outcomes : MSCallback(res, out)
    \/ \E g \in Gens : MSStart(g)
    \/ \E g \in Gens : MSGenPoll(g)
    \/ \E g \in Gens : MSGenNext(g)
    \/ \E g \in Gens : MSGenClose(g)
    \/ \E g \in Gens : MSGenFinally(g)
    \/ MSStop

\* start() and stop() are called one at a time (ApiFree)
TMNext ==
    \/ CBStatus
    \/ \E a \in Amps : CBEnter(a)
    \/ \E cls \in Classes : CBFrame(cls)
    \/ CBReturn
    \/ \E w \in Workers : WLoop(w)
    \/ \E w \in Workers : WGet(w)
    \/ \E w \in Workers : WQuiet(w)
    \/ \E w \in Workers, out \in Outcomes : WTranscribe(w, out)
    \/ \E w \in Workers : WFinally(w)
    \/ \E w \in Workers : WPut(w)
    \/ \E g \in Gens : ApiFree /\ StartEnter(g)
    \/ \E g \in Gens : StartClear(g)
    \/ \E g \in Gens : StartSpawn(g)
    \/ \E g \in Gens : StartStream(g)
    \/ \E g \in Gens : StartStreamFails(g)
    \/ \E g \in Gens : GenPoll(g)
    \/ ApiFree /\ StopEnter
    \/ StopStream
    \/ \E stopped \in BOOLEAN : StopStreamRaises(stopped)
    \/ StopPut
    \/ StopJoin

Next == TMNext \/ MSNext

Spec == Init /\ [][Next]_vars

(* ------------------------------------------------------------------ *)
(* Properties                                                           *)
(* ------------------------------------------------------------------ *)
Last(q) == q[Len(q)]

Range(q) == {q[i] : i \in DOMAIN q}

\* h is silence, then one speech burst, then at least the hangover of silence
OneBurst(h) ==
    \E a \in 0..Len(h), b \in 1..Len(h) :
        /\ a < b
        /\ Len(h) - b >= max_silence_frames
        /\ \A k \in 1..Len(h) : h[k] = (a < k /\ k <= b)

\* C1: in transcriber_module, a session that hears silence, one speech
\* burst and then silence of at least the hangover, however long, has put
\* exactly one utterance on the transcription queue.
C1_OneUtterancePerBurst ==
    (impl = "tm" /\ OneBurst(heard)) => sess_enq = 1

\* C2: in transcriber_module, once start() has drained the queues the
\* output queue of the session never holds a text of an utterance enqueued
\* in an earlier session, and the session begins (the queues just drained,
\* the worker about to be spawned) with state WAITING, empty buffers and
\* empty queues.
C2_FreshSession ==
    impl = "tm" =>
        /\ (\A g \in Gens : gpc[g] # "s_clear") =>
               \A i \in DOMAIN output_queue : output_queue[i].sess = session
        /\ (\E g \in Gens : gpc[g] = "s_spawn") =>
               /\ current_state = STATE_WAITING_FOR_SPEECH
               /\ speech_buffer = <<>>
               /\ processing_buffer = <<>>
               /\ transcription_queue = <<>>
               /\ output_queue = <<>>

\* C3: in moonshine, with no exception in between, a burst of twice the
\* forced-cut length between the gate's 'start' and its 'end' has been
\* finalized as exactly two utterances, and every chunk of the burst is in
\* one of them.
C3_LongBurstTwoUtterances ==
    (/\ impl = "ms"
     /\ ~triggered
     /\ ~cb_raised
     /\ Len(burst) = 2 * MaxSpeechChunks)
    => /\ Len(cuts) = 2
       /\ \A c \in Range(burst) : \E i \in DOMAIN cuts : c \in Range(cuts[i])

\* C4: in both implementations no transcription call is made by the
\* thread that runs the audio callback.
C4_NoTranscribeInCallback ==
    \A c \in calls : c[2] # "callback"

\* the gate has reported no speech: no speech frame in this session
\* (transcriber_module), no 'start' event so far (moonshine)
NoSpeechHeard ==
    IF impl = "tm"
    THEN \A k \in DOMAIN heard : ~heard[k]
    ELSE burst = <<>>

\* C5: in both implementations, while the gate has reported no speech the
\* state is WAITING and no utterance exists: nothing was enqueued, in the
\* first session (and in moonshine throughout) the transcription function
\* was never called and nothing was put on the output queue.
C5_SilenceEmitsNothing ==
    NoSpeechHeard =>
        IF impl = "tm"
        THEN /\ current_state = STATE_WAITING_FOR_SPEECH
             /\ speech_buffer = <<>>
             /\ sess_enq = 0
             /\ \A i \in DOMAIN transcription_queue :
                    transcription_queue[i].sess # session
             /\ \A i \in DOMAIN output_queue : output_queue[i].sess # session
             /\ session <= 1 => (nenq = 0 /\ calls = {} /\ output_queue = <<>>)
        ELSE /\ state = STATE_WAITING
             /\ nenq = 0
             /\ calls = {}
             /\ output_queue = <<>>

\* a run of silence frames, with the worker waiting for utterances
C5_Witness ==
    /\ impl = "tm"
    /\ Len(heard) >= 2 * max_silence_frames
    /\ NoSpeechHeard
    /\ wpc[1] = "get"

\* C6: in transcriber_module, when a speech frame follows a gap of g
\* non-speech frames, 0 < g < _max_silence_frames, that itself follows a
\* speech frame, the speech buffer holds the frames of both bursts and the
\* gap: nothing was cut off or enqueued in the gap.
C6_ShortGapMerged ==
    impl = "tm" =>
        \A g \in 1..(max_silence_frames - 1) :
            LET n == Len(heard)
            IN  (/\ n >= g + 2
                 /\ heard[n]
                 /\ heard[n - g - 1]
                 /\ \A k \in 1..g : ~heard[n - k])
                => Len(speech_buffer) >= g + 2

\* a worker that is in, or past, the transcription call for its item
Transcribing(w) == wpc[w] \in {"transcribe", "finally", "put"}

\* mean absolute amplitude of an utterance below the threshold
QuietItem(item) ==
    LET xs == Concat(item.frames)
    IN  item # Sentinel /\ 1000 * SumAbs(xs) < energy_threshold * 32767 * Len(xs)

\* C7: in transcriber_module, a worker never makes the transcription call
\* for (nor puts a text for) an utterance below the energy threshold, and
\* the step in which it has handled such an utterance leaves the state
\* WAITING, makes no call and puts no text.
C7_QuietNeverTranscribed ==
    [][\A w \in Workers :
          /\ Transcribing(w)' => ~QuietItem(witem'[w])
          /\ (QuietItem(witem[w]) /\ wpc[w] = "quiet" /\ wpc'[w] # "quiet") =>
                 /\ wpc'[w] = "loop"
                 /\ current_state' = STATE_WAITING_FOR_SPEECH
                 /\ calls' = calls
                 /\ output_queue' = output_queue]_vars

\* a worker has handled a quiet utterance and is back at its loop
C7_Witness ==
    \E w \in Workers :
        /\ wpc[w] = "loop"
        /\ QuietItem(witem[w])
        /\ <<witem[w].id, "worker">> \notin calls
        /\ current_state = STATE_WAITING_FOR_SPEECH

\* C8: in transcriber_module, a worker whose transcription call raised for
\* an utterance has no text for it and never puts one, and no worker ever
\* leaves its loop because of an exception: it ends only on the cleared
\* flag or the sentinel.
C8_RaiseNotFatal ==
    \A w \in Workers :
        /\ exited[w] # "exception"
        /\ wpc[w] = "done" => exited[w] \in {"flag", "sentinel"}
        /\ (wexc[w] # 0 /\ witem[w].id = wexc[w]) =>
               /\ wtext[w] = ""
               /\ wpc[w] # "put"
        /\ wexc[w] # 0 =>
               \A i \in DOMAIN output_queue : output_queue[i].utt # wexc[w]

\* a worker whose call raised has dequeued a later utterance and is in the
\* transcription call for it, the session still running
C8_Witness ==
    \E w \in Workers :
        /\ keep_running
        /\ wexc[w] # 0
        /\ witem[w].id > wexc[w]
        /\ wpc[w] = "transcribe"

\* the fields of the transcriber objects and the threads working for them
progvars == <<tmvars, msonly, active_streams, cb_pc, wpc, witem, wtext, spc>>

\* C9: in both implementations a stop() call made when the last call was
\* a stop() that has returned changes nothing: no field, no queue, no
\* stream, no thread, and no step of stop() is begun.
C9_StopIdempotent ==
    [][(/\ api_log # <<>>
        /\ Last(api_log) = "stop"
        /\ spc = "idle"
        /\ api_log' = Append(api_log, "stop"))
       => UNCHANGED <<progvars, gpc>>]_vars

\* start(), a stop() that ran to its end, then a second stop()
C9_Witness ==
    /\ impl = "tm"
    /\ api_log = <<"start", "stop", "stop">>
    /\ \E w \in Workers : exited[w] = "sentinel"

\* the transcriber is running: the flag is set (transcriber_module), a
\* stream is open and the stop event clear (moonshine)
Running ==
    IF impl = "tm" THEN keep_running ELSE active_streams # {} /\ ~stop_event

\* C10: in both implementations a start() call made while the transcriber
\* is running changes no state, buffer or queue, spawns no worker and
\* opens no stream.
C10_StartNoopWhenRunning ==
    [][(Running /\ api_log' = Append(api_log, "start"))
       => UNCHANGED progvars]_vars

\* C11: in moonshine, a start() call that follows a stop() leaves the new
\* session with state WAITING, an empty audio buffer and an empty output
\* queue.
C11_MSFreshRestart ==
    [][(/\ impl = "ms"
        /\ api_log # <<>>
        /\ Last(api_log) = "stop"
        /\ api_log' = Append(api_log, "start"))
       => (/\ state' = STATE_WAITING
           /\ audio_buffer' = <<>>
           /\ output_queue' = <<>>)]_vars

(* ------------------------------------------------------------------ *)
(* Progress: every thread that can take a step eventually takes one     *)
(* ------------------------------------------------------------------ *)
\* the steps of worker thread w; the transcription call returns
WorkerStep(w) ==
    \/ WLoop(w)
    \/ WGet(w)
    \/ WQuiet(w)
    \/ \E out \in Outcomes : WTranscribe(w, out)
    \/ WFinally(w)
    \/ WPut(w)

\* the steps of generator g, its consumer pulling it
GenStep(g) ==
    \/ StartClear(g)
    \/ StartSpawn(g)
    \/ StartStream(g)
    \/ GenPoll(g)
    \/ MSGenPoll(g)
    \/ MSGenNext(g)
    \/ MSGenFinally(g)

\* the steps of a stop() call in progress
StopStep ==
    \/ StopStream
    \/ \E stopped \in BOOLEAN : StopStreamRaises(stopped)
    \/ StopPut
    \/ StopJoin

Fairness ==
    /\ \A w \in Workers : WF_vars(WorkerStep(w))
    /\ \A g \in Gens : WF_vars(GenStep(g))
    /\ WF_vars(StopStep)
    /\ WF_vars(CBReturn)

LiveSpec == Init /\ [][Next]_vars /\ Fairness

\* the last call made was a stop()
StopCalledLast == api_log # <<>> /\ Last(api_log) = "stop"

\* no generator is live and no worker is in its loop
Quiesced ==
    /\ \A g \in Gens : gpc[g] \in {"unborn", "done"}
    /\ \A w \in Workers : wpc[w] \in {"unborn", "done"}

\* C12: in both implementations, once stop() has been called and as long
\* as start() is not called again, every generator terminates and every
\* worker leaves its loop.
C12_StopEndsWaits ==
    StopCalledLast ~> (Quiesced \/ ~StopCalledLast)

\* a session that enqueued an utterance was stopped; its generator and
\* its worker have ended
C12_Witness ==
    /\ impl = "tm"
    /\ api_log = <<"start", "stop">>
    /\ nenq >= 1
    /\ gpc[1] = "done"
    /\ wpc[1] = "done"

\* the steps of worker thread w other than the return of the
\* transcription call, which may never come
WorkerStepNoCall(w) ==
    \/ WLoop(w)
    \/ WGet(w)
    \/ WQuiet(w)
    \/ WFinally(w)
    \/ WPut(w)

FairnessHang ==
    /\ \A w \in Workers : WF_vars(WorkerStepNoCall(w))
    /\ WF_vars(StopStep)
    /\ WF_vars(CBReturn)

\* progress when a transcription call may hang for ever
HangSpec == Init /\ [][Next]_vars /\ FairnessHang

\* C13: in transcriber_module a stop() call in progress always returns,
\* also when the worker stays in its transcription call or closing the
\* stream raises, and when it returns the running flag is clear and the
\* stream reference is None.
C13_StopReturns ==
    /\ (spc # "idle") ~> (spc = "idle")
    /\ [][(spc # "idle" /\ spc' = "idle")
          => (~keep_running' /\ stream' = 0)]_vars

\* stop() has returned while the worker is still in its transcription call
C13_Witness ==
    /\ impl = "tm"
    /\ api_log = <<"start", "stop">>
    /\ spc = "idle"
    /\ wpc[1] = "transcribe"
    /\ ~keep_running
    /\ stream = 0

(* ------------------------------------------------------------------ *)
(* start() and stop() called from different threads                     *)
(* ------------------------------------------------------------------ *)
\* no other start() call is between its guard and its generator loop
StartFree == \A g \in Gens : gpc[g] \notin SetupPcs

\* transcriber_module with a start() call and a stop() call in progress at
\* the same time: neither waits for the other
ConcNext ==
    \/ CBStatus
    \/ \E a \in Amps : CBEnter(a)
    \/ \E cls \in Classes : CBFrame(cls)
    \/ CBReturn
    \/ \E w \in Workers : WorkerStep(w)
    \/ \E g \in Gens : StartFree /\ StartEnter(g)
    \/ \E g \in Gens : StartClear(g)
    \/ \E g \in Gens : StartSpawn(g)
    \/ \E g \in Gens : StartStream(g)
    \/ \E g \in Gens : StartStreamFails(g)
    \/ \E g \in Gens : GenPoll(g)
    \/ StopEnter
    \/ StopStep

ConcInit == Init /\ impl = "tm"

ConcSpec == ConcInit /\ [][ConcNext]_vars

\* worker threads that are in their loop
LiveWorkers == {w \in Workers : wpc[w] \notin {"unborn", "done"}}

FullyRunning ==
    /\ keep_running
    /\ stream # 0
    /\ stream \in active_streams
    /\ Cardinality(LiveWorkers) = 1
    /\ \A i \in DOMAIN transcription_queue : transcription_queue[i] # Sentinel

FullyStopped ==
    /\ ~keep_running
    /\ stream = 0
    /\ active_streams = {}

\* C14: in transcriber_module, whenever no start() and no stop() call is
\* in progress the transcriber is fully running (flag set, stream open,
\* one live worker, no sentinel pending) or fully stopped (flag clear, no
\* stream open), also when the calls overlapped.
C14_StartStopThreadSafe ==
    (spc = "idle" /\ StartFree) => (FullyRunning \/ FullyStopped)

(* ------------------------------------------------------------------ *)
(* A restarted session beside the worker of the session before it       *)
(* ------------------------------------------------------------------ *)
\* the utterance of the first session: speech, then the hangover
FirstUtterance ==
    [id |-> 1, sess |-> 1,
     frames |-> [k \in 1..(1 + max_silence_frames) |->
                    [i \in 1..FrameUnits |-> ToInt16(6)]]]

\* The state start(), three frames, stop(), start() leads to when the
\* first worker is in its transcription call while stop() joins it: the
\* join has timed out, the second start() has drained the sentinel, the
\* second worker waits on the queue.  (Spec reaches this state.)
Restarted ==
    /\ impl = "tm"
    /\ keep_running = TRUE
    /\ state_lock = "free"
    /\ transcription_queue = <<>>
    /\ output_queue = <<>>
    /\ current_state = STATE_WAITING_FOR_SPEECH
    /\ speech_buffer = <<>>
    /\ processing_buffer = <<>>
    /\ silence_frames_after_speech = 0
    /\ stream = 2
    /\ transcriber_thread = 2
    /\ MSInit
    /\ MainOff
    /\ ArgsFixed
    /\ active_streams = {2}
    /\ cb_pc = "idle"
    /\ wpc = [w \in Workers |->
                 IF w = 1 THEN "transcribe" ELSE IF w = 2 THEN "get"
                 ELSE "unborn"]
    /\ witem = [w \in Workers |-> IF w = 1 THEN FirstUtterance ELSE Sentinel]
    /\ wtext = [w \in Workers |-> ""]
    /\ gpc = [g \in Gens |->
                 IF g = 1 THEN "done" ELSE IF g = 2 THEN "poll" ELSE "unborn"]
    /\ spc = "idle"
    /\ nblocks = 2
    /\ napi = 3
    /\ api_log = <<"start", "stop", "start">>
    /\ session = 2
    /\ heard = <<>>
    /\ nenq = 1
    /\ sess_enq = 0
    /\ calls = {}
    /\ wexc = [w \in Workers |-> 0]
    /\ exited = [w \in Workers |-> "no"]
    /\ burst = <<>>
    /\ cuts = <<>>
    /\ cb_raised = FALSE
    /\ vad_raised = FALSE
    /\ accepted = <<>>
    /\ classified = <<>>

RestartInit == Restarted /\ budget = Spent(napi) + RestartBlocks

\* the restarted session runs on: callback, workers and generator
RestartNext ==
    \/ CBStatus
    \/ \E a \in Amps : CBEnter(a)
    \/ \E cls \in Classes : CBFrame(cls)
    \/ CBReturn
    \/ \E w \in Workers : WorkerStep(w)
    \/ \E g \in Gens : GenPoll(g)

RestartSpec == RestartInit /\ [][RestartNext]_vars

\* C15: within one session the utterances wait in the transcription queue
\* in the order they were enqueued, and the texts in the output queue
\* (which the generator yields first-in first-out) stand in the order of
\* the utterances they were transcribed from.
C15_OrderPreserved ==
    impl = "tm" =>
        /\ \A i, j \in DOMAIN transcription_queue :
              (/\ i < j
               /\ transcription_queue[i] # Sentinel
               /\ transcription_queue[j] # Sentinel)
                  => transcription_queue[i].id < transcription_queue[j].id
        /\ \A i, j \in DOMAIN output_queue :
              (/\ i < j
               /\ output_queue[i].sess = session
               /\ output_queue[j].sess = session)
                  => output_queue[i].utt < output_queue[j].utt

\* texts that are empty or consist of whitespace only
Blank == {t \in Texts : Strip(t) = ""}

\* C16: in both implementations the output queue, from which the
\* generator yields, never holds an empty or whitespace-only text.
C16_OnlyNonEmptyTexts ==
    \A i \in DOMAIN output_queue : output_queue[i].s \notin Blank

\* a worker has transcribed an utterance without an exception, got no
\* text and put nothing, while the text of another utterance is queued
C16_Witness ==
    /\ impl = "tm"
    /\ output_queue # <<>>
    /\ \E w \in Workers :
          /\ wpc[w] = "loop"
          /\ witem[w] # Sentinel
          /\ <<witem[w].id, "worker">> \in calls
          /\ wexc[w] # witem[w].id
          /\ wtext[w] = ""
          /\ \A i \in DOMAIN output_queue : output_queue[i].utt # witem[w].id

(* ------------------------------------------------------------------ *)
(* main.main_loop                                                       *)
(* ------------------------------------------------------------------ *)
\* what completion_handler.generate_text may return
Replies == {"text", "[Error generating response]"}

\* what no step of main_loop itself writes
mainkeeps == <<impl, budget, argvars, tmonly, stream, msonly, cb_pc, wvars, spc,
               nblocks, apivars, heard, enqvars, calls, hist>>

\* the listener thread: 'q', end of input or an error sets stop_event
Listener ==
    /\ mpc \notin {"off", "exit"}
    /\ ~quit
    /\ quit' = TRUE
    /\ UNCHANGED <<mainkeeps, output_queue, active_streams, gpc, mpc,
                   stream_paused, reply, pipeline, played>>

\* for sentence in transcriber.start(): the generator's loop runs until it
\* yields a text or ends; then the first stop_event check (a yielded text
\* is never empty, so 'if not sentence' is not taken)
MainPull ==
    /\ impl = "tm"
    /\ mpc = "pull"
    /\ gpc[1] = "poll"
    /\ IF ~keep_running
       THEN /\ gpc' = [gpc EXCEPT ![1] = "done"]
            /\ mpc' = "finally"
            /\ UNCHANGED <<output_queue, played>>
       ELSE /\ output_queue # <<>>
            /\ output_queue' = Tail(output_queue)
            /\ played' = FALSE
            /\ mpc' = IF quit THEN "finally" ELSE "generate"
            /\ UNCHANGED gpc
    /\ UNCHANGED <<mainkeeps, active_streams, stream_paused, quit, reply,
                   pipeline>>

\* start() raised out of the generator: except Exception, stop_event.set()
MainGenRaised ==
    /\ mpc = "pull"
    /\ gpc[1] = "done"
    /\ spc = "idle"
    /\ quit' = TRUE
    /\ mpc' = "finally"
    /\ UNCHANGED <<mainkeeps, output_queue, active_streams, gpc,
                   stream_paused, reply, pipeline, played>>

\* reply = completion_handler.generate_text(sentence), the second
\* stop_event check, stream_paused = False
MainGenerate(r) ==
    /\ mpc = "generate"
    /\ reply' = r
    /\ stream_paused' = FALSE
    /\ mpc' = IF quit THEN "finally" ELSE "pause"
    /\ UNCHANGED <<mainkeeps, output_queue, active_streams, gpc, quit,
                   pipeline, played>>

\* transcriber._stream.stop(); stream_paused = True  (stopping a stream
\* waits for a callback in progress), or the warning when there is no stream
MainPause ==
    /\ mpc = "pause"
    /\ IF stream # 0
       THEN /\ cb_pc = "idle"
            /\ active_streams' = active_streams \ {stream}
            /\ stream_paused' = TRUE
       ELSE UNCHANGED <<active_streams, stream_paused>>
    /\ mpc' = "play"
    /\ UNCHANGED <<mainkeeps, output_queue, gpc, quit, reply, pipeline,
                   played>>

\* transcriber._stream.stop() raises: the exception is caught, a warning is
\* printed, stream_paused stays False; the stream may or may not have stopped
MainPauseRaises(stopped) ==
    /\ mpc = "pause"
    /\ stream # 0
    /\ cb_pc = "idle"
    /\ active_streams' = IF stopped THEN active_streams \ {stream}
                                    ELSE active_streams
    /\ mpc' = "play"
    /\ UNCHANGED <<mainkeeps, output_queue, gpc, stream_paused, quit, reply,
                   pipeline, played>>

\* if tts_handler.pipeline is not None and reply != "[Error ...]":
\*     tts_handler.play_text(reply)
MainPlayBegin ==
    /\ mpc = "play"
    /\ IF pipeline # "None" /\ reply # "[Error generating response]"
       THEN /\ mpc' = "playing"
            /\ played' = TRUE
       ELSE /\ mpc' = "after_play"
            /\ UNCHANGED played
    /\ UNCHANGED <<mainkeeps, output_queue, active_streams, gpc,
                   stream_paused, quit, reply, pipeline>>

\* play_text returns (it catches every Exception itself)
MainPlayEnd ==
    /\ mpc = "playing"
    /\ mpc' = "after_play"
    /\ UNCHANGED <<mainkeeps, output_queue, active_streams, gpc,
                   stream_paused, quit, reply, pipeline, played>>

\* the third stop_event check
MainAfterPlay ==
    /\ mpc = "after_play"
    /\ mpc' = IF quit THEN "resume_exit" ELSE "resume"
    /\ UNCHANGED <<mainkeeps, output_queue, active_streams, gpc,
                   stream_paused, quit, reply, pipeline, played>>

\* if stream_paused: transcriber._stream.start() inside try/except, on the
\* way to the next pull or, after the third check, to the break;
\* ok says whether the start() succeeded
MainResume(ok) ==
    /\ mpc \in {"resume", "resume_exit"}
    /\ active_streams' =
           IF stream_paused /\ stream # 0 /\ ok
           THEN active_streams \cup {stream}
           ELSE active_streams
    /\ mpc' = IF mpc = "resume" THEN "pull" ELSE "finally"
    /\ UNCHANGED <<mainkeeps, output_queue, gpc, stream_paused, quit, reply,
                   pipeline, played>>

\* KeyboardInterrupt in the loop body, or while the generator waits in its
\* loop: except KeyboardInterrupt, stop_event.set()
MainInterrupt ==
    /\ \/ mpc \in {"generate", "pause", "play", "playing", "after_play",
                   "resume", "resume_exit"}
       \/ mpc = "pull" /\ gpc[1] = "poll"
    /\ gpc' = [gpc EXCEPT ![1] = IF mpc = "pull" THEN "done" ELSE @]
    /\ quit' = TRUE
    /\ mpc' = "finally"
    /\ UNCHANGED <<mainkeeps, output_queue, active_streams, stream_paused,
                   reply, pipeline, played>>

\* finally: transcriber.stop() is called once
MainStop ==
    /\ mpc = "finally"
    /\ api_log = <<"start">>
    /\ StopEnter

\* transcriber.stop() has returned; main_loop returns
MainExit ==
    /\ mpc = "finally"
    /\ api_log = <<"start", "stop">>
    /\ spc = "idle"
    /\ mpc' = "exit"
    /\ UNCHANGED <<mainkeeps, output_queue, active_streams, gpc,
                   stream_paused, quit, reply, pipeline, played>>

\* main_loop from the construction of the transcriber
MainInit ==
    /\ impl = "tm"
    /\ budget = MaxBlocks
    /\ mpc = "pull"
    /\ stream_paused = FALSE
    /\ quit = FALSE
    /\ reply = ""
    /\ pipeline \in {"loaded", "None"}
    /\ played = FALSE
    /\ ArgsFixed
    /\ TMInit
    /\ MSInit
    /\ ThreadsInit
    /\ HistoryInit

MainNext ==
    \/ CBStatus
    \/ \E a \in Amps : CBEnter(a)
    \/ \E cls \in Classes : CBFrame(cls)
    \/ CBReturn
    \/ \E w \in Workers : WorkerStep(w)
    \/ mpc = "pull" /\ StartEnter(1)
    \/ StartClear(1)
    \/ StartSpawn(1)
    \/ StartStream(1)
    \/ StartStreamFails(1)
    \/ Listener
    \/ MainPull
    \/ MainGenRaised
    \/ \E r \in Replies : MainGenerate(r)
    \/ MainPause
    \/ \E stopped \in BOOLEAN : MainPauseRaises(stopped)
    \/ MainPlayBegin
    \/ MainPlayEnd
    \/ MainAfterPlay
    \/ \E ok \in BOOLEAN : MainResume(ok)
    \/ MainInterrupt
    \/ MainStop
    \/ StopStep
    \/ MainExit

MainSpec == MainInit /\ [][MainNext]_vars

\* the frame source delivers blocks: the stream is open and started
SourceRunning == stream # 0 /\ stream \in active_streams

\* C17: play_text runs only while the transcriber's frame source is
\* stopped, and after a playback the frame source is running again when
\* the next utterance is pulled and when the loop is left (before the
\* finally clause calls stop()).
C17_PlaybackWhileStopped ==
    /\ mpc = "playing" => ~SourceRunning
    /\ (/\ played
        /\ mpc \in {"pull", "finally"}
        /\ api_log = <<"start">>
        /\ spc = "idle") => SourceRunning

\* C18: while a session is running, no step of a transcription worker
\* changes the pipeline state, the speech buffer or the processing buffer.
C18_WorkerNeverWritesState ==
    [][(/\ impl = "tm"
        /\ keep_running
        /\ \E w \in Workers : wpc[w] # "unborn" /\ wpc'[w] # wpc[w])
       => UNCHANGED <<current_state, speech_buffer, processing_buffer>>]_vars

\* sequence a is an initial part of sequence b
IsPrefix(a, b) == Len(a) <= Len(b) /\ SubSeq(b, 1, Len(a)) = a

\* C19: during a running session the frames in the speech buffer stay
\* there (the buffer only grows) until a step enqueues them as part of an
\* utterance: no step drops a buffered frame.
C19_NoFrameLost ==
    [][(/\ impl = "tm"
        /\ keep_running
        /\ speech_buffer # <<>>
        /\ ~IsPrefix(speech_buffer, speech_buffer'))
       => (/\ nenq' = nenq + 1
           /\ transcription_queue' # <<>>
           /\ IsPrefix(speech_buffer, Last(transcription_queue').frames))]_vars

\* the utterances waiting in a transcription queue, by their numbers
Waiting(q) == {q[i].id : i \in DOMAIN q} \ {Sentinel.id}

\* C20 (never lost from the queue): an utterance leaves the transcription
\* queue only by a worker's get(), which hands it to that worker.
C20_LeavesOnlyToWorker ==
    [][impl = "tm" =>
          \A u \in Waiting(transcription_queue) \ Waiting(transcription_queue') :
              \E w \in Workers : wpc[w] = "get" /\ witem'[w].id = u]_vars

\* C20 (never left behind): once the session is stopped and every worker
\* has ended, no utterance is waiting in the transcription queue.
C20_NoneLeftBehind ==
    (impl = "tm" /\ ~keep_running /\ spc = "idle" /\ LiveWorkers = {})
        => Waiting(transcription_queue) = {}

\* C20: every utterance placed on the transcription queue is dequeued and
\* handled by exactly one worker-loop iteration, over any sequence of
\* frames, start() and stop() calls; an utterance enqueued when stop() is
\* called is still handled.
C20_HandledExactlyOnce == C20_LeavesOnlyToWorker /\ []C20_NoneLeftBehind

\* every frame of the session so far was classified as speech
NonStopSpeech == heard # <<>> /\ \A i \in DOMAIN heard : heard[i]

\* C21: under speech that never pauses the segmenter cuts the utterance
\* off at a maximum duration, so the speech buffer never grows beyond it.
C21_ForcedCutoff ==
    (impl = "tm" /\ NonStopSpeech) => Len(speech_buffer) <= MaxSpeechFrames

\* C22: in moonshine no callback lets an exception of the gate or of the
\* transcription call out, and every callback that finalizes, also one
\* whose transcription fails, returns with the audio buffer empty and the
\* state WAITING.
C22_CallbackNeverRaises ==
    [][(impl = "ms" /\ nblocks' = nblocks + 1)
       => (/\ cb_raised' => cb_raised
           /\ nenq' # nenq
                 => (audio_buffer' = <<>> /\ state' = STATE_WAITING))]_vars

\* C23: a VAD frame on which the classifier raises is handled exactly as
\* a non-speech frame: state, speech buffer, silence counter and
\* transcription queue change as the non-speech branch prescribes, and the
\* callback goes on with the loop (or breaks, if the frame ends the
\* utterance) instead of being left by the exception.
C23_VadErrorIsSilence ==
    [][(impl = "tm" /\ Len(heard') = Len(heard) + 1 /\ vad_raised')
       => LET frame == SubSeq(processing_buffer, 1, FrameUnits)
          IN  /\ cb_pc = "loop"
              /\ Last(heard') = FALSE
              /\ IF current_state = STATE_RECORDING_SPEECH
                 THEN OnSilenceFrame(frame)
                 ELSE OnIdleFrame(frame)]_vars

\* the classifier raised on the frame that completed the silence timeout
\* of the first utterance, which was enqueued
C23_Witness ==
    /\ impl = "tm"
    /\ vad_raised
    /\ heard = <<TRUE, FALSE, FALSE>>
    /\ sess_enq = 1
    /\ speech_buffer = <<>>

\* C24: on the WAITING to RECORDING transition the audio buffer is the
\* whole lookback buffer as it was before the triggering chunk, followed
\* by the triggering chunk.
C24_LookbackKeptWhole ==
    [][(/\ impl = "ms"
        /\ state = STATE_WAITING
        /\ state' = STATE_RECORDING)
       => audio_buffer' = Append(audio_buffer, nblocks')]_vars

\* the chunks n-k+1 .. n, the k most recent when n chunks have arrived
Recent(k, n) == [i \in 1..k |-> n - k + i]

\* C25 (contents): while WAITING the audio buffer holds at most
\* LookbackChunks chunks, and they are the most recent ones in arrival order.
C25_LookbackRecent ==
    (impl = "ms" /\ state = STATE_WAITING)
        => /\ Len(audio_buffer) <= LookbackChunks
           /\ audio_buffer = Recent(Len(audio_buffer), nblocks)

\* C25 (refill): a callback that finalizes and leaves the state WAITING
\* leaves the buffer empty; one that stays WAITING without finalizing adds
\* its chunk and drops the oldest one only when the buffer was full.
C25_LookbackRefills ==
    [][(impl = "ms" /\ nblocks' = nblocks + 1 /\ state' = STATE_WAITING)
       => IF nenq' # nenq
          THEN audio_buffer' = <<>>
          ELSE /\ state = STATE_WAITING
               /\ audio_buffer' =
                      IF Len(audio_buffer) < LookbackChunks
                      THEN Append(audio_buffer, nblocks')
                      ELSE Append(Tail(audio_buffer), nblocks')]_vars

\* C25: whenever the state is WAITING after a callback, the audio buffer
\* holds at most the lookback length and exactly the most recent chunks
\* received since the last finalize, oldest dropped first; after every
\* finalize it is empty and refills from zero.
C25_LookbackBuffer == []C25_LookbackRecent /\ C25_LookbackRefills

\* after the utterance <<1, 2>> was finalized three more chunks arrived:
\* the buffer has refilled and dropped chunk 3
C25_Witness ==
    /\ impl = "ms"
    /\ state = STATE_WAITING
    /\ cuts = <<(<<1, 2>>)>>
    /\ nblocks = 5
    /\ audio_buffer = <<4, 5>>

(* ------------------------------------------------------------------ *)
(* The silence timeout for any constructor arguments                    *)
(* ------------------------------------------------------------------ *)
\* the frame durations the VAD accepts
FrameDurations == {10, 20, 30}

\* self._max_silence_frames = int(vad_silence_timeout_ms / vad_frame_ms)
MaxSilenceFrames(t, f) == t \div f

\* ceil(t / f)
Ceiling(t, f) == (t + f - 1) \div f

\* a recording utterance, constructed with any timeout and frame duration
TimeoutInit ==
    /\ impl = "tm"
    /\ budget = MaxBlocks
    /\ MainOff
    /\ timeout_ms \in 1..MaxTimeoutMs
    /\ frame_ms \in FrameDurations
    /\ silent_run = 0
    /\ ended_at = 0
    /\ TMInit
    /\ MSInit
    /\ ThreadsInit
    /\ HistoryInit

\* a non-speech frame while recording: the counter is incremented and
\* compared with _max_silence_frames (lines 179-182)
SilentFrameCounted ==
    /\ ended_at = 0
    /\ silent_run' = silent_run + 1
    /\ ended_at' = IF silent_run' >= MaxSilenceFrames(timeout_ms, frame_ms)
                   THEN silent_run'
                   ELSE 0
    /\ UNCHANGED <<impl, budget, mainvars, timeout_ms, frame_ms, tmvars,
                   msonly, active_streams, cb_pc, wvars, gpc, spc, nblocks,
                   apivars, heard, enqvars, calls, hist>>

\* a speech frame while recording: the counter is reset (line 172)
SpeechFrameCounted ==
    /\ ended_at = 0
    /\ silent_run # 0
    /\ silent_run' = 0
    /\ UNCHANGED <<impl, budget, mainvars, timeout_ms, frame_ms, ended_at,
                   tmvars, msonly, active_streams, cb_pc, wvars, gpc, spc,
                   nblocks, apivars, heard, enqvars, calls, hist>>

TimeoutNext == SilentFrameCounted \/ SpeechFrameCounted

TimeoutSpec == TimeoutInit /\ [][TimeoutNext]_vars

\* C26: for every positive timeout and frame duration, end-of-speech is
\* declared when the count of consecutive non-speech frames reaches
\* ceil(vad_silence_timeout_ms / vad_frame_ms), and not earlier.
C26_EndsAtCeiling ==
    ended_at # 0 => ended_at = Ceiling(timeout_ms, frame_ms)

\* C27: after any sequence of start() and stop() calls at most one thread
\* is in the transcription-worker loop.
C27_SingleWorker == impl = "tm" => Cardinality(LiveWorkers) <= 1

\* the steps main_loop takes by itself: every step but the interrupt
MainStep ==
    \/ mpc = "pull" /\ StartEnter(1)
    \/ StartClear(1)
    \/ StartSpawn(1)
    \/ StartStream(1)
    \/ MainPull
    \/ MainGenRaised
    \/ \E r \in Replies : MainGenerate(r)
    \/ MainPause
    \/ MainPlayBegin
    \/ MainPlayEnd
    \/ MainAfterPlay
    \/ \E ok \in BOOLEAN : MainResume(ok)
    \/ MainStop
    \/ MainExit

\* main_loop, the workers, a stop() in progress and a callback in
\* progress keep running; no block, 'q' or Ctrl-C is bound to arrive
MainFairness ==
    /\ WF_vars(MainStep)
    /\ \A w \in Workers : WF_vars(WorkerStep(w))
    /\ WF_vars(StopStep)
    /\ WF_vars(\E cls \in Classes : CBFrame(cls))
    /\ WF_vars(CBReturn)

MainLiveSpec == MainInit /\ [][MainNext]_vars /\ MainFairness

\* C28: once the listener has set stop_event, main_loop leaves the
\* transcription loop, calls transcriber.stop() and returns.
C28_QuitEndsMainLoop == quit ~> (mpc = "exit")

(* ------------------------------------------------------------------ *)
(* One longer session of transcriber_module.RealTimeTranscriber         *)
(* ------------------------------------------------------------------ *)
SessionInit ==
    /\ impl = "tm"
    /\ budget = SessionBlocks
    /\ MainOff
    /\ ArgsFixed
    /\ TMInit
    /\ MSInit
    /\ ThreadsInit
    /\ HistoryInit

\* start() is called once; the callback, the worker and the generator run
SessionNext ==
    \/ CBStatus
    \/ \E a \in Amps : CBEnter(a)
    \/ \E cls \in Classes : CBFrame(cls)
    \/ CBReturn
    \/ \E w \in Workers : WorkerStep(w)
    \/ StartEnter(1)
    \/ StartClear(1)
    \/ StartSpawn(1)
    \/ StartStream(1)
    \/ GenPoll(1)

SessionSpec == SessionInit /\ [][SessionNext]_vars

\* C29: in a running session the samples of all VAD frames classified so
\* far, followed by the residual processing buffer, are the samples of
\* all accepted input blocks in arrival order: no sample is lost, none is
\* classified twice, and what a break leaves behind is still in the
\* buffer for the next callback.
C29_SamplesConserved ==
    (impl = "tm" /\ keep_running)
        => classified \o processing_buffer = accepted

\* the second silent frame after a speech frame was the first frame of the
\* fourth block: the utterance was enqueued and the loop broke with a
\* whole frame left in the buffer; the fifth block has arrived and that
\* frame and the next have been classified
C29_Witness ==
    /\ impl = "tm"
    /\ keep_running
    /\ cb_pc = "idle"
    /\ nblocks = 5
    /\ Len(heard) = 7
    /\ SubSeq(heard, 1, 5) = <<FALSE, FALSE, TRUE, FALSE, FALSE>>
    /\ sess_enq >= 1
    /\ Len(processing_buffer) = 1

====
